---- MODULE Spec2Model ----
(***************************************************************************)
(* A model of package bemailparts (src/bemailparts.go, the variant that    *)
(* declares the BEmailParts interface).  A Go string is a sequence of      *)
(* one-character strings.  The state is one *bEmailParts instance (or no   *)
(* instance), together with the name and the returned error of the last    *)
(* call made on the package.                                               *)
(***************************************************************************)
EXTENDS Integers, Sequences, FiniteSets, TLC

VARIABLES e, op, err

vars == <<e, op, err>>

---------------------------------------------------------------------------
(* Bounds of the model.                                                    *)

\* Longest username, domain name and domain TLD argument.
MaxPartLen == 2

\* Longest domain argument.
MaxDomainArgLen == 3

\* Longest domain a setter may build.
MaxDomainLen == 3

\* Longest email argument of New.
MaxEmailLen == 7

\* The characters the arguments are built from: a letter, the domain
\* separator, and the email separator (which no character class contains).
Alphabet == {"a", ".", "@"}

RECURSIVE StringsUpTo(_)
StringsUpTo(n) ==
    IF n = 0 THEN {<<>>}
    ELSE LET shorter == StringsUpTo(n - 1)
         IN  shorter \cup {Append(s, c) : s \in shorter, c \in Alphabet}

PartArgs == StringsUpTo(MaxPartLen)

DomainArgs == StringsUpTo(MaxDomainArgLen)

EmailArgs == StringsUpTo(MaxEmailLen)

---------------------------------------------------------------------------
(* Constants and character classes of the patterns.                        *)

emailSeparator == "@"

domainSeparator == "."

Lower ==
    {"a","b","c","d","e","f","g","h","i","j","k","l","m",
     "n","o","p","q","r","s","t","u","v","w","x","y","z"}

Upper ==
    {"A","B","C","D","E","F","G","H","I","J","K","L","M",
     "N","O","P","Q","R","S","T","U","V","W","X","Y","Z"}

Digits == {"0","1","2","3","4","5","6","7","8","9"}

\* [a-zA-Z0-9._%+-]
UsernameChars == Lower \cup Upper \cup Digits \cup {".", "_", "%", "+", "-"}

\* [a-zA-Z0-9.-]
DomainNameChars == Lower \cup Upper \cup Digits \cup {".", "-"}

\* [a-zA-Z]
DomainTLDChars == Lower \cup Upper

\* Every character of s[i..j] is in class, and the range is not empty.
Run(s, i, j, class) == i <= j /\ \A k \in i..j : s[k] \in class

---------------------------------------------------------------------------
(* The compiled patterns, as regexp.MatchString decides them: a match may  *)
(* start and end anywhere unless the pattern anchors it with ^ or $.       *)

\* ^[a-zA-Z0-9._%+-]+
usernameRegex(s) ==
    \E j \in 1..Len(s) : Run(s, 1, j, UsernameChars)

\* [a-zA-Z0-9.-]+
domainNameRegex(s) ==
    \E i \in 1..Len(s) : \E j \in i..Len(s) : Run(s, i, j, DomainNameChars)

\* The TLD pattern of the earlier variant, [a-zA-Z]+ with no anchor.
domainTLDRegexUnanchored(s) ==
    \E i \in 1..Len(s) : \E j \in i..Len(s) : Run(s, i, j, DomainTLDChars)

\* [a-zA-Z]+$
domainTLDRegex(s) ==
    \E i \in 1..Len(s) : Run(s, i, Len(s), DomainTLDChars)

\* The domain pattern without the separator between name and TLD.
domainRegexNoSeparator(s) ==
    \E i \in 1..Len(s) : \E p \in (i + 1)..Len(s) :
        /\ Run(s, i, p - 1, DomainNameChars)
        /\ Run(s, p, Len(s), DomainTLDChars)

\* [a-zA-Z0-9.-]+\.[a-zA-Z]+$
domainRegex(s) ==
    \E i \in 1..Len(s) : \E p \in (i + 1)..(Len(s) - 1) :
        /\ Run(s, i, p - 1, DomainNameChars)
        /\ s[p] = domainSeparator
        /\ Run(s, p + 1, Len(s), DomainTLDChars)

\* The email pattern of the earlier variant, with no anchor at the end.
emailRegexNoEndAnchor(s) ==
    \E q \in 2..Len(s) : \E p \in (q + 2)..(Len(s) - 1) :
        \E j \in (p + 1)..Len(s) :
            /\ Run(s, 1, q - 1, UsernameChars)
            /\ s[q] = emailSeparator
            /\ Run(s, q + 1, p - 1, DomainNameChars)
            /\ s[p] = domainSeparator
            /\ Run(s, p + 1, j, DomainTLDChars)

\* ^[a-zA-Z0-9._%+-]+@[a-zA-Z0-9.-]+\.[a-zA-Z]+$
emailRegex(s) ==
    \E q \in 2..Len(s) : \E p \in (q + 2)..(Len(s) - 1) :
        /\ Run(s, 1, q - 1, UsernameChars)
        /\ s[q] = emailSeparator
        /\ Run(s, q + 1, p - 1, DomainNameChars)
        /\ s[p] = domainSeparator
        /\ Run(s, p + 1, Len(s), DomainTLDChars)

---------------------------------------------------------------------------
(* The errors of errors.go, and the values a call returns.                 *)

NoError == "nil"

ErrInvalidEmailFormat == "invalid email format"

ErrInvalidEmailUsernameFormat == "invalid email username format"

ErrInvalidEmailDomainFormat == "invalid email domain format"

ErrInvalidEmailDomainNameFormat == "invalid email domain name format"

ErrInvalidEmailDomainTLDFormat == "invalid email domain tld format"

\* A run-time panic of the Go program (an index or a slice bound out of range).
ErrPanic == "panic"

\* What a slicing accessor yields when it panics.
Panic == <<"panic">>

\* The nil instance.
Nil == [nil |-> TRUE]

---------------------------------------------------------------------------
(* Library functions of package strings.                                   *)

\* strings.Index(s, sep) for a one-character sep: the 0-based index of the
\* first sep in s, or -1.
Index(s, sep) ==
    IF \E k \in 1..Len(s) : s[k] = sep
    THEN (CHOOSE k \in 1..Len(s) :
              s[k] = sep /\ \A m \in 1..(k - 1) : s[m] # sep) - 1
    ELSE -1

\* strings.LastIndex(s, sep), as the earlier variant of the accessors used it.
LastIndex(s, sep) ==
    IF \E k \in 1..Len(s) : s[k] = sep
    THEN (CHOOSE k \in 1..Len(s) :
              s[k] = sep /\ \A m \in (k + 1)..Len(s) : s[m] # sep) - 1
    ELSE -1

\* strings.HasPrefix(s, prefix) for a one-character prefix.
HasPrefix(s, prefix) == Len(s) >= 1 /\ s[1] = prefix

\* strings.TrimPrefix(s, prefix) for a one-character prefix.
TrimPrefix(s, prefix) == IF HasPrefix(s, prefix) THEN Tail(s) ELSE s

\* strings.Split(s, sep) for a one-character sep: the pieces of s between
\* the occurrences of sep, in order.
RECURSIVE Split(_, _)
Split(s, sep) ==
    LET i == Index(s, sep)
    IN  IF i = -1
        THEN <<s>>
        ELSE <<SubSeq(s, 1, i)>> \o Split(SubSeq(s, i + 2, Len(s)), sep)

---------------------------------------------------------------------------
(* Helpers.                                                                *)

generateEmail(username, domain) == username \o <<emailSeparator>> \o domain

\* generateDomain as the earlier variant wrote it: the separator is always added.
generateDomainAlwaysDot(domainName, domainTLD) ==
    domainName \o (<<domainSeparator>> \o domainTLD)

generateDomain(domainName, domainTLD) ==
    IF ~HasPrefix(domainTLD, domainSeparator)
    THEN domainName \o (<<domainSeparator>> \o domainTLD)
    ELSE domainName \o domainTLD

---------------------------------------------------------------------------
(* Accessors of an instance x.                                             *)

Email(x) == generateEmail(x.username, x.domain)

Username(x) == x.username

Domain(x) == x.domain

\* DomainName as the earlier variant computed it, with LastIndex.
DomainNameLastIndex(x) ==
    LET i == LastIndex(x.domain, domainSeparator)
    IN  IF i = -1 THEN Panic ELSE SubSeq(x.domain, 1, i)

\* e.domain[:strings.Index(e.domain, domainSeparator)]
DomainName(x) ==
    LET i == Index(x.domain, domainSeparator)
    IN  IF i = -1 THEN Panic ELSE SubSeq(x.domain, 1, i)

\* DomainTLD as the earlier variant computed it, with LastIndex.
DomainTLDLastIndex(x) ==
    LET i == LastIndex(x.domain, domainSeparator)
    IN  IF i = -1 THEN Panic ELSE SubSeq(x.domain, i + 1, Len(x.domain))

\* e.domain[strings.Index(e.domain, domainSeparator):]
DomainTLD(x) ==
    LET i == Index(x.domain, domainSeparator)
    IN  IF i = -1 THEN Panic ELSE SubSeq(x.domain, i + 1, Len(x.domain))

DomainTLDWithoutDot(x) ==
    IF DomainTLD(x) = Panic THEN Panic
    ELSE TrimPrefix(DomainTLD(x), domainSeparator)

String(x) == Email(x)

---------------------------------------------------------------------------
(* Constructors: the instance and the error a call returns.                *)

\* New with the two pieces taken in the wrong order.
NewSwapped(email) ==
    IF ~emailRegex(email)
    THEN [e |-> Nil, err |-> ErrInvalidEmailFormat]
    ELSE LET parts == Split(email, emailSeparator)
         IN  IF Len(parts) < 2
             THEN [e |-> Nil, err |-> ErrPanic]
             ELSE [e |-> [username |-> parts[2], domain |-> parts[1]],
                   err |-> NoError]

New(email) ==
    IF ~emailRegex(email)
    THEN [e |-> Nil, err |-> ErrInvalidEmailFormat]
    ELSE LET parts == Split(email, emailSeparator)
         IN  IF Len(parts) < 2
             THEN [e |-> Nil, err |-> ErrPanic]
             ELSE [e |-> [username |-> parts[1], domain |-> parts[2]],
                   err |-> NoError]

NewFromUsernameAndDomain(username, domain) ==
    IF ~usernameRegex(username)
    THEN [e |-> Nil, err |-> ErrInvalidEmailUsernameFormat]
    ELSE IF ~domainRegex(domain)
    THEN [e |-> Nil, err |-> ErrInvalidEmailDomainFormat]
    ELSE New(generateEmail(username, domain))

NewFromFullParts(username, domainName, domainTLD) ==
    IF ~domainNameRegex(domainName)
    THEN [e |-> Nil, err |-> ErrInvalidEmailDomainNameFormat]
    ELSE IF ~domainTLDRegex(domainTLD)
    THEN [e |-> Nil, err |-> ErrInvalidEmailDomainTLDFormat]
    ELSE NewFromUsernameAndDomain(username, generateDomain(domainName, domainTLD))

---------------------------------------------------------------------------
(* Setters: the instance after the call and the error the call returns.    *)

SetUsername(x, username) ==
    IF ~usernameRegex(username)
    THEN [e |-> x, err |-> ErrInvalidEmailUsernameFormat]
    ELSE [e |-> [x EXCEPT !.username = username], err |-> NoError]

SetDomain(x, domain) ==
    IF ~domainRegex(domain)
    THEN [e |-> x, err |-> ErrInvalidEmailDomainFormat]
    ELSE [e |-> [x EXCEPT !.domain = domain], err |-> NoError]

\* SetDomainName that stores the new domain before it validates.
SetDomainNameEager(x, domainName) ==
    IF DomainTLD(x) = Panic
    THEN [e |-> x, err |-> ErrPanic]
    ELSE [e |-> [x EXCEPT !.domain = generateDomain(domainName, DomainTLD(x))],
          err |-> IF ~domainNameRegex(domainName)
                  THEN ErrInvalidEmailDomainNameFormat
                  ELSE NoError]

SetDomainName(x, domainName) ==
    IF ~domainNameRegex(domainName)
    THEN [e |-> x, err |-> ErrInvalidEmailDomainNameFormat]
    ELSE IF DomainTLD(x) = Panic
    THEN [e |-> x, err |-> ErrPanic]
    ELSE [e |-> [x EXCEPT !.domain = generateDomain(domainName, DomainTLD(x))],
          err |-> NoError]

\* SetDomainTLD that joins the name and the TLD itself, without generateDomain.
SetDomainTLDPlainJoin(x, domainTLD) ==
    IF ~domainTLDRegex(domainTLD)
    THEN [e |-> x, err |-> ErrInvalidEmailDomainTLDFormat]
    ELSE IF DomainName(x) = Panic
    THEN [e |-> x, err |-> ErrPanic]
    ELSE [e |-> [x EXCEPT !.domain = DomainName(x) \o domainTLD],
          err |-> NoError]

SetDomainTLD(x, domainTLD) ==
    IF ~domainTLDRegex(domainTLD)
    THEN [e |-> x, err |-> ErrInvalidEmailDomainTLDFormat]
    ELSE IF DomainName(x) = Panic
    THEN [e |-> x, err |-> ErrPanic]
    ELSE [e |-> [x EXCEPT !.domain = generateDomain(DomainName(x), domainTLD)],
          err |-> NoError]

---------------------------------------------------------------------------
(* The state machine: a caller builds an instance with one of the          *)
(* constructors (again after a failed attempt), then calls setters on it.  *)

Init ==
    /\ e = Nil
    /\ op = "none"
    /\ err = NoError

Returns(name, r) ==
    /\ e' = r.e
    /\ err' = r.err
    /\ op' = name

CallNew ==
    /\ e = Nil
    /\ \E email \in EmailArgs :
           Returns("New", New(email))

CallNewFromUsernameAndDomain ==
    /\ e = Nil
    /\ \E username \in PartArgs, domain \in DomainArgs :
           Returns("NewFromUsernameAndDomain",
                   NewFromUsernameAndDomain(username, domain))

CallNewFromFullParts ==
    /\ e = Nil
    /\ \E username \in PartArgs, domainName \in PartArgs, domainTLD \in PartArgs :
           Returns("NewFromFullParts",
                   NewFromFullParts(username, domainName, domainTLD))

CallSetUsername ==
    /\ e # Nil
    /\ \E username \in PartArgs :
           Returns("SetUsername", SetUsername(e, username))

CallSetDomain ==
    /\ e # Nil
    /\ \E domain \in DomainArgs :
           Returns("SetDomain", SetDomain(e, domain))

\* A setter may build a domain of at most MaxDomainLen characters.
WithinBound(r) == r.err # NoError \/ Len(r.e.domain) <= MaxDomainLen

CallSetDomainName ==
    /\ e # Nil
    /\ \E domainName \in PartArgs :
           /\ WithinBound(SetDomainName(e, domainName))
           /\ Returns("SetDomainName", SetDomainName(e, domainName))

CallSetDomainTLD ==
    /\ e # Nil
    /\ \E domainTLD \in PartArgs :
           /\ WithinBound(SetDomainTLD(e, domainTLD))
           /\ Returns("SetDomainTLD", SetDomainTLD(e, domainTLD))

Next ==
    \/ CallNew
    \/ CallNewFromUsernameAndDomain
    \/ CallNewFromFullParts
    \/ CallSetUsername
    \/ CallSetDomain
    \/ CallSetDomainName
    \/ CallSetDomainTLD

Spec == Init /\ [][Next]_vars

---------------------------------------------------------------------------
(* Vocabulary of the properties.                                           *)

ConstructorNames == {"New", "NewFromUsernameAndDomain", "NewFromFullParts"}

SetterNames == {"SetUsername", "SetDomain", "SetDomainName", "SetDomainTLD"}

\* The error each setter documents for a rejected argument.
OwnError(name) ==
    CASE name = "SetUsername" -> ErrInvalidEmailUsernameFormat
      [] name = "SetDomain" -> ErrInvalidEmailDomainFormat
      [] name = "SetDomainName" -> ErrInvalidEmailDomainNameFormat
      [] name = "SetDomainTLD" -> ErrInvalidEmailDomainTLDFormat

OnlyFrom(s, class) == \A k \in 1..Len(s) : s[k] \in class

\* The full email grammar, read off the string: exactly one '@', before it
\* one or more username characters, after it domain characters that end in
\* a '.' followed by one or more letters, with at least one character
\* before that '.'.
MatchesEmailGrammar(s) ==
    /\ Cardinality({k \in 1..Len(s) : s[k] = "@"}) = 1
    /\ LET at == CHOOSE k \in 1..Len(s) : s[k] = "@"
           user == SubSeq(s, 1, at - 1)
           dom == SubSeq(s, at + 1, Len(s))
       IN  /\ Len(user) >= 1
           /\ OnlyFrom(user, UsernameChars)
           /\ OnlyFrom(dom, DomainNameChars)
           /\ \E p \in 2..(Len(dom) - 1) :
                  /\ dom[p] = "."
                  /\ OnlyFrom(SubSeq(dom, p + 1, Len(dom)), DomainTLDChars)

\* The step taken is a call of the named operation that returned r.
StepIs(name, r) == op' = name /\ e' = r.e /\ err' = r.err

\* The six accessors of an instance, in the order of the interface.
Accessors(x) ==
    <<Email(x), Username(x), Domain(x), DomainName(x), DomainTLD(x),
      DomainTLDWithoutDot(x)>>

\* v with a single '.' prepended if v does not already start with '.'.
WithLeadingDot(v) == IF Len(v) >= 1 /\ v[1] = "." THEN v ELSE <<".">> \o v

---------------------------------------------------------------------------
(* C1: whenever an instance exists (after a successful constructor and any *)
(* sequence of setter calls), Username() matches the username pattern,     *)
(* Domain() matches the domain pattern and Email() matches the full email  *)
(* pattern ^[a-zA-Z0-9._%+-]+@[a-zA-Z0-9.-]+\.[a-zA-Z]+$.                   *)
(* The code does not keep this: SetUsername, SetDomain, SetDomainName and  *)
(* SetDomainTLD accept arguments of which only a prefix, a suffix or a     *)
(* substring matches.                                                      *)
C1_AlwaysValidEmail ==
    e # Nil =>
        /\ usernameRegex(Username(e))
        /\ domainRegex(Domain(e))
        /\ emailRegex(Email(e))
        /\ MatchesEmailGrammar(Email(e))

---------------------------------------------------------------------------
(* C2: wherever New can be called, for every string s that matches the     *)
(* full email grammar New(s) returns no error and an instance whose        *)
(* Email() and String() are s.                                             *)
C2_NewRoundTrip ==
    e = Nil =>
        \A s \in EmailArgs :
            MatchesEmailGrammar(s) =>
                LET r == New(s)
                IN  /\ r.err = NoError
                    /\ r.e # Nil
                    /\ Email(r.e) = s
                    /\ String(r.e) = s

\* New("a.@a.a") has returned an instance that gives the string back.
C2_Witness ==
    /\ op = "New"
    /\ err = NoError
    /\ e # Nil
    /\ MatchesEmailGrammar(Email(e))
    /\ Username(e) = <<"a", ".">>
    /\ Domain(e) = <<"a", ".", "a">>

---------------------------------------------------------------------------
(* C3: on every instance, a setter call that returns an error returns the *)
(* error of that setter, and leaves an instance on which all six accessors *)
(* return what they returned before the call.                              *)
RejectedCleanly(before, name, r) ==
    r.err # NoError =>
        /\ r.err = OwnError(name)
        /\ r.e # Nil
        /\ Accessors(r.e) = before

C3_SetterAtomicity ==
    e # Nil =>
        LET before == Accessors(e)
        IN  /\ \A v \in PartArgs :
                   /\ RejectedCleanly(before, "SetUsername", SetUsername(e, v))
                   /\ RejectedCleanly(before, "SetDomainName",
                                      SetDomainName(e, v))
                   /\ RejectedCleanly(before, "SetDomainTLD",
                                      SetDomainTLD(e, v))
            /\ \A v \in DomainArgs :
                   RejectedCleanly(before, "SetDomain", SetDomain(e, v))

\* SetDomainName has just rejected its argument.
C3_Witness ==
    /\ op = "SetDomainName"
    /\ err = ErrInvalidEmailDomainNameFormat
    /\ e # Nil
    /\ Email(e) = <<"a", "@", "a", ".", "a">>

---------------------------------------------------------------------------
(* C4: whenever an instance exists, Email() is Username() + "@" +          *)
(* Domain(), Domain() is DomainName() + DomainTLD(), and DomainTLD() is    *)
(* "." + DomainTLDWithoutDot().                                            *)
C4_DecompositionConsistency ==
    e # Nil =>
        /\ Email(e) = Username(e) \o <<"@">> \o Domain(e)
        /\ Domain(e) = DomainName(e) \o DomainTLD(e)
        /\ DomainTLD(e) = <<".">> \o DomainTLDWithoutDot(e)

\* A setter has built a domain with two separators.
C4_Witness ==
    /\ op = "SetDomainName"
    /\ err = NoError
    /\ e # Nil
    /\ Domain(e) = <<".", ".", "a">>
    /\ DomainName(e) = <<>>
    /\ DomainTLD(e) = <<".", ".", "a">>

---------------------------------------------------------------------------
(* C5: a SetDomainName call that returns no error leaves DomainTLD() (its  *)
(* leading dot included) and Username() as they were before the call.      *)
(* The code does not keep this for a domain name that contains '.': the    *)
(* accessors split the new domain at its first '.', which is then inside   *)
(* the name that was set.                                                  *)
C5_SetDomainNameKeepsTLD ==
    [][(e # Nil /\ op' = "SetDomainName" /\ err' = NoError) =>
           /\ DomainTLD(e') = DomainTLD(e)
           /\ Username(e') = Username(e)]_vars

---------------------------------------------------------------------------
(* C6: on every instance and for every v, a SetDomainTLD(v) call that     *)
(* returns no error leaves DomainName() and Username() as they were, makes *)
(* DomainTLD() equal to v with a single '.' prepended if v does not start  *)
(* with '.', and makes Domain() the earlier DomainName() followed by that  *)
(* value.                                                                  *)
C6_SetDomainTLDFrame ==
    e # Nil =>
        \A v \in PartArgs :
            LET r == SetDomainTLD(e, v)
            IN  r.err = NoError =>
                    /\ r.e # Nil
                    /\ DomainName(r.e) = DomainName(e)
                    /\ Username(r.e) = Username(e)
                    /\ DomainTLD(r.e) = WithLeadingDot(v)
                    /\ Domain(r.e) = DomainName(e) \o WithLeadingDot(v)

\* SetDomainTLD has replaced the TLD of a domain and kept its name.
C6_Witness ==
    /\ op = "SetDomainTLD"
    /\ err = NoError
    /\ e # Nil
    /\ Username(e) = <<"a", "a">>
    /\ DomainName(e) = <<"a">>
    /\ DomainTLD(e) = <<".", "a">>

---------------------------------------------------------------------------
(* C7: for every instance New returns, DomainName() is the domain before   *)
(* its first '.', DomainTLD() is the domain from its first '.' on, and     *)
(* DomainTLDWithoutDot() is DomainTLD() without that '.'; New("a@b.co.id") *)
(* gives "b", ".co.id" and "co.id".                                        *)
C7_FirstDotSplit ==
    /\ (op = "New" /\ err = NoError) =>
           /\ e # Nil
           /\ \A k \in 1..Len(DomainName(e)) : DomainName(e)[k] # "."
           /\ Len(DomainTLD(e)) >= 1
           /\ DomainTLD(e)[1] = "."
           /\ DomainName(e) \o DomainTLD(e) = Domain(e)
           /\ DomainTLDWithoutDot(e) = Tail(DomainTLD(e))
    /\ LET r == New(<<"a", "@", "b", ".", "c", "o", ".", "i", "d">>)
       IN  /\ r.err = NoError
           /\ DomainName(r.e) = <<"b">>
           /\ DomainTLD(r.e) = <<".", "c", "o", ".", "i", "d">>
           /\ DomainTLDWithoutDot(r.e) = <<"c", "o", ".", "i", "d">>

\* New has returned an instance whose TLD has two labels.
C7_Witness ==
    /\ op = "New"
    /\ err = NoError
    /\ e # Nil
    /\ Domain(e) = <<"a", ".", "a", ".", "a">>
    /\ DomainTLD(e) = <<".", "a", ".", "a">>

---------------------------------------------------------------------------
(* C8: wherever NewFromFullParts can be called, for every username u,      *)
(* domain name n and TLD t that does not start with '.', the calls with t  *)
(* and with "." + t return the same: the same error, or instances with the *)
(* same fields whose Email() is u + "@" + n + "." + t.                     *)
C8_TLDNormalization ==
    e = Nil =>
        \A u \in PartArgs, n \in PartArgs, t \in PartArgs :
            ~HasPrefix(t, ".") =>
                LET bare == NewFromFullParts(u, n, t)
                    dotted == NewFromFullParts(u, n, <<".">> \o t)
                IN  /\ bare = dotted
                    /\ bare.err = NoError =>
                           Email(bare.e) = u \o <<"@">> \o n \o <<".">> \o t

\* NewFromFullParts has built an instance from its three parts.
C8_Witness ==
    /\ op = "NewFromFullParts"
    /\ err = NoError
    /\ e # Nil
    /\ Email(e) = <<"a", "@", "a", "a", ".", "a", "a">>

---------------------------------------------------------------------------
(* C9, as claimed: every instance a constructor returns has an Email()     *)
(* that matches the full email grammar, and a constructor call whose       *)
(* parts each pass the check made on that part, but whose composition      *)
(* does not match the full grammar, returns ErrInvalidEmailFormat and no   *)
(* instance.  NewFromFullParts does not return that error when the domain  *)
(* it composes fails the domain pattern.                                   *)
C9_GateReturnsEmailFormat ==
    [][(e = Nil /\ op' \in ConstructorNames) =>
           /\ err' = NoError => (e' # Nil /\ MatchesEmailGrammar(Email(e')))
           /\ (op' = "NewFromUsernameAndDomain"
                   /\ err' \notin {NoError, ErrInvalidEmailFormat}) =>
                  ~ \E u \in PartArgs, d \in DomainArgs :
                        /\ usernameRegex(u)
                        /\ domainRegex(d)
                        /\ ~MatchesEmailGrammar(generateEmail(u, d))
                        /\ StepIs("NewFromUsernameAndDomain",
                                  NewFromUsernameAndDomain(u, d))
           /\ (op' = "NewFromFullParts"
                   /\ err' \notin {NoError, ErrInvalidEmailFormat}) =>
                  ~ \E u \in PartArgs, n \in PartArgs, t \in PartArgs :
                        /\ usernameRegex(u)
                        /\ domainNameRegex(n)
                        /\ domainTLDRegex(t)
                        /\ ~MatchesEmailGrammar(
                               generateEmail(u, generateDomain(n, t)))
                        /\ StepIs("NewFromFullParts",
                                  NewFromFullParts(u, n, t))]_vars

(* C9, amended: every instance a constructor returns has an Email() that   *)
(* matches the full email grammar; a NewFromUsernameAndDomain call whose   *)
(* username and domain pass their patterns but compose to a string outside *)
(* the grammar returns ErrInvalidEmailFormat and no instance; so does a    *)
(* NewFromFullParts call whose parts pass their patterns, unless the       *)
(* domain composed of the name and the TLD fails the domain pattern, when  *)
(* it returns ErrInvalidEmailDomainFormat and no instance.                 *)
C9_ConstructorsGateOnGrammar ==
    /\ (op \in ConstructorNames /\ err = NoError) =>
           (e # Nil /\ MatchesEmailGrammar(Email(e)))
    /\ e = Nil =>
           /\ \A u \in PartArgs, d \in DomainArgs :
                  (/\ usernameRegex(u)
                   /\ domainRegex(d)
                   /\ ~MatchesEmailGrammar(generateEmail(u, d))) =>
                      NewFromUsernameAndDomain(u, d) =
                          [e |-> Nil, err |-> ErrInvalidEmailFormat]
           /\ \A u \in PartArgs, n \in PartArgs, t \in PartArgs :
                  (/\ usernameRegex(u)
                   /\ domainNameRegex(n)
                   /\ domainTLDRegex(t)
                   /\ ~MatchesEmailGrammar(
                          generateEmail(u, generateDomain(n, t)))) =>
                      NewFromFullParts(u, n, t) =
                          [e |-> Nil,
                           err |-> IF domainRegex(generateDomain(n, t))
                                   THEN ErrInvalidEmailFormat
                                   ELSE ErrInvalidEmailDomainFormat]

\* NewFromFullParts has been stopped by the full-pattern check of New.
C9_Witness ==
    /\ op = "NewFromFullParts"
    /\ err = ErrInvalidEmailFormat
    /\ e = Nil

---------------------------------------------------------------------------
(* C10, as claimed: a SetDomainTLD call whose argument is one or more      *)
(* letters followed by one or more characters that are not letters         *)
(* returns no error.                                                       *)
TrailingGarbage(v) ==
    \E k \in 1..(Len(v) - 1) :
        /\ \A m \in 1..k : v[m] \in DomainTLDChars
        /\ \A m \in (k + 1)..Len(v) : v[m] \notin DomainTLDChars

C10_TrailingGarbageAccepted ==
    [][(e # Nil /\ op' = "SetDomainTLD") =>
           \A v \in PartArgs :
               (TrailingGarbage(v) /\ StepIs("SetDomainTLD", SetDomainTLD(e, v)))
                   => err' = NoError]_vars

(* C10, amended: the TLD validation of SetDomainTLD is anchored at the end *)
(* and not at the start: on every instance a call returns no error exactly *)
(* when its argument ends with a letter, and returns                       *)
(* ErrInvalidEmailDomainTLDFormat otherwise.  Letters followed by other    *)
(* characters are rejected; other characters followed by letters are not.  *)
C10_TLDEndAnchored ==
    e # Nil =>
        \A v \in PartArgs :
            SetDomainTLD(e, v).err =
                IF Len(v) >= 1 /\ v[Len(v)] \in DomainTLDChars
                THEN NoError
                ELSE ErrInvalidEmailDomainTLDFormat

\* SetDomainTLD has accepted "@a", which does not start with a letter.
C10_Witness ==
    /\ op = "SetDomainTLD"
    /\ err = NoError
    /\ e # Nil
    /\ DomainTLD(e) = <<".", "@", "a">>

---------------------------------------------------------------------------
(* C11: after a NewFromFullParts(u, n, t) call that returns no error, and  *)
(* after a SetDomainName(n) call on an instance that returns no error,     *)
(* DomainName() returns n.  The code does not keep this for an n that      *)
(* contains '.': the domain name pattern accepts it, and DomainName()      *)
(* cuts the stored domain at its first '.', inside n.                      *)
C11_DomainNameWriteThenRead ==
    [][/\ (e = Nil /\ op' = "NewFromFullParts" /\ err' = NoError) =>
              \A u \in PartArgs, n \in PartArgs, t \in PartArgs :
                  StepIs("NewFromFullParts", NewFromFullParts(u, n, t))
                      => DomainName(e') = n
       /\ (e # Nil /\ op' = "SetDomainName" /\ err' = NoError) =>
              \A n \in PartArgs :
                  StepIs("SetDomainName", SetDomainName(e, n))
                      => DomainName(e') = n]_vars

---------------------------------------------------------------------------
(* C12: no call panics.  Whenever an instance exists, its stored domain    *)
(* contains '.', so DomainName(), DomainTLD() and DomainTLDWithoutDot()    *)
(* slice at an index that is not -1, and so do the DomainTLD() and         *)
(* DomainName() reads of SetDomainName and SetDomainTLD, for every         *)
(* argument; and for every string, New takes parts[1] of a split on '@'    *)
(* only when the split has two parts.                                      *)
C12_NoPanic ==
    /\ err # ErrPanic
    /\ e # Nil =>
           /\ Index(e.domain, domainSeparator) # -1
           /\ DomainName(e) # Panic
           /\ DomainTLD(e) # Panic
           /\ DomainTLDWithoutDot(e) # Panic
           /\ \A v \in PartArgs :
                  /\ SetDomainName(e, v).err # ErrPanic
                  /\ SetDomainTLD(e, v).err # ErrPanic
    /\ e = Nil =>
           \A s \in EmailArgs : New(s).err # ErrPanic

\* SetDomain has stored a domain whose only separator is at index 1.
C12_Witness ==
    /\ op = "SetDomain"
    /\ err = NoError
    /\ e # Nil
    /\ e.domain = <<"a", ".", "a">>
    /\ Index(e.domain, domainSeparator) = 1

====
